---- MODULE Spec2Model ----
(***************************************************************************)
(* World of Bits: the grid/state core of the geolocation token game.       *)
(*                                                                         *)
(* Geographic coordinates are integers in units of 1e-5 degrees, so that   *)
(* TILE_DEGREES = 3e-5 is 3 units and the start position (36.9995,         *)
(* -122.0533) is exact.  The Cell Store is a JavaScript Map: a sequence of *)
(* <<key, value>> entries in insertion order, keyed by the string "i,j".   *)
(* The inventory (number | null) is the set holding the held value, empty  *)
(* when null.  Every handler is one action; a handler that throws leaves   *)
(* the assignments it made before the throw.                               *)
(***************************************************************************)
EXTENDS Integers, Sequences, FiniteSets, TLC

\* ---- program constants (1e-5 degree units, percent) ----
TILE_DEGREES == 3
PIT_SPAWN_PROBABILITY == 50
INTERACTION_RANGE == 3
VICTORY_THRESHOLD == 16
InitLat == 3699950
InitLng == -12205330

\* ---- bounds of the model ----
MaxTravel == 1          \* tiles the buttons may carry the player north/east of the start
MaxInteractions == 2    \* collect/craft/deposit clicks per session
ViewHalfLong == 12      \* half extent of the view along its long side
ViewHalfShort == 0      \* half extent of the view along its short side
MaxTokens == 3          \* cells of the popup revision's grid that generate a token

VARIABLES
  playerPosition,   \* [lat, lng]
  inventory,        \* {} (null) or {w}
  cellState,        \* Map<string, number>: sequence of <<key, value>>
  storage,          \* localStorage[STORAGE_KEY]
  mapCenter,        \* centre of the Leaflet view
  viewSize,         \* [hLat, hLng]: half extents of map.getBounds()
  activeRectangles, \* drawn rectangles with the value their click handler captured
  statusPanel,      \* statusPanel.innerHTML
  controlPanelDisplay, geoWatchId, currentMovement, \* movement facade
  hasGeolocation,   \* navigator.geolocation is present
  watches,          \* the browser's live watchPosition subscriptions (their ids)
  geoErrorLogged,   \* the watch's error callback has written to the console
  moveendListener,  \* map.on("moveend") has been registered
  pc,               \* "boot" before map.whenReady's callback ran, then "ready"
  threw,            \* the last handler ended with an uncaught exception
  interactions,     \* history: collect/craft/deposit clicks of this session
  written,          \* history: cell <<i, j>> |-> the value the last such click set
  loaded,           \* history: keys loadGame put into the store
  popup             \* the popup revision (src/main.ts): its inventory, cells and popups

vars == <<playerPosition, inventory, cellState, storage, mapCenter, viewSize,
          activeRectangles, statusPanel, controlPanelDisplay, geoWatchId,
          currentMovement, hasGeolocation, watches, geoErrorLogged,
          moveendListener, pc, threw, interactions, written, loaded, popup>>

Null == {}
Abs(n) == IF n < 0 THEN 0 - n ELSE n
Held(inv) == CHOOSE w \in inv : TRUE

\* ---- Map<string, number> ----
MapKeys(m) == {m[n][1] : n \in 1..Len(m)}
MapHas(m, key) == key \in MapKeys(m)
MapGet(m, key) == m[CHOOSE n \in 1..Len(m) : m[n][1] = key][2]
MapSet(m, key, value) ==
  IF MapHas(m, key)
  THEN [n \in 1..Len(m) |-> IF m[n][1] = key THEN <<key, value>> ELSE m[n]]
  ELSE Append(m, <<key, value>>)

\* a key that drops the column
CellKeyTypo(i, j) == ToString(i) \o "," \o ToString(i)
\* `${i},${j}`
CellKey(i, j) == ToString(i) \o "," \o ToString(j)

\* luck([i, j, "initialValue"].toString()) as a percentage in 0..99
luck(i, j) == ((i % 97) * 31 + (j % 89) * 17 + (i % 7) * (j % 5) * 11) % 100

\* a conversion that rounds toward zero
latLngToCellTrunc(lat, lng) ==
  [i |-> IF lat < 0 THEN 0 - ((0 - lat) \div TILE_DEGREES) ELSE lat \div TILE_DEGREES,
   j |-> IF lng < 0 THEN 0 - ((0 - lng) \div TILE_DEGREES) ELSE lng \div TILE_DEGREES]

latLngToCell(lat, lng) == [i |-> lat \div TILE_DEGREES, j |-> lng \div TILE_DEGREES]

\* the default deterministic value of getCellValue
spawnValue(i, j) == IF luck(i, j) < PIT_SPAWN_PROBABILITY THEN 1 ELSE 0

getCellValue(m, i, j) ==
  IF MapHas(m, CellKey(i, j)) THEN MapGet(m, CellKey(i, j)) ELSE spawnValue(i, j)

\* ---- the whole program state as one record, threaded through the code ----
State ==
  [playerPosition |-> playerPosition, inventory |-> inventory, cellState |-> cellState,
   storage |-> storage, mapCenter |-> mapCenter, viewSize |-> viewSize,
   activeRectangles |-> activeRectangles, statusPanel |-> statusPanel,
   controlPanelDisplay |-> controlPanelDisplay, geoWatchId |-> geoWatchId,
   currentMovement |-> currentMovement, watches |-> watches,
   moveendListener |-> moveendListener, pc |-> pc, threw |-> FALSE]

Apply(s) ==
  /\ playerPosition' = s.playerPosition
  /\ inventory' = s.inventory
  /\ cellState' = s.cellState
  /\ storage' = s.storage
  /\ mapCenter' = s.mapCenter
  /\ viewSize' = s.viewSize
  /\ activeRectangles' = s.activeRectangles
  /\ statusPanel' = s.statusPanel
  /\ controlPanelDisplay' = s.controlPanelDisplay
  /\ geoWatchId' = s.geoWatchId
  /\ currentMovement' = s.currentMovement
  /\ watches' = s.watches
  /\ moveendListener' = s.moveendListener
  /\ pc' = s.pc
  /\ threw' = s.threw

\* ---- persistence ----
Absent == [kind |-> "absent"]
\* JSON.stringify(state): the document tree of the text
JSONstringify(pos, inv, entries) ==
  [kind |-> "json",
   doc |-> [playerPosition |-> [lat |-> pos.lat, lng |-> pos.lng],
            inventory |-> IF inv = Null THEN [t |-> "null"]
                          ELSE [t |-> "number", n |-> Held(inv)],
            cellState |-> entries]]

\* saveGame(); quota: localStorage.setItem throws
saveGame(s, quota) ==
  IF s.threw THEN s
  ELSE IF quota THEN [s EXCEPT !.threw = TRUE]
  ELSE [s EXCEPT !.storage = JSONstringify(s.playerPosition, s.inventory, s.cellState)]

\* ---- rendering ----
ViewCells(center, size) ==
  LET northWestCell == latLngToCell(center.lat + size.hLat, center.lng - size.hLng)
      southEastCell == latLngToCell(center.lat - size.hLat, center.lng + size.hLng)
  IN  (southEastCell.i .. northWestCell.i) \X (northWestCell.j .. southEastCell.j)

\* one rectangle per cell of the view, its click handler capturing the cell's value
Rectangles(m, center, size) ==
  {[i |-> c[1], j |-> c[2], value |-> getCellValue(m, c[1], c[2])]
     : c \in ViewCells(center, size)}

\* a render that drops the stored cells that left the view
renderMemoryless(s) ==
  IF s.threw THEN s
  ELSE LET kept == SelectSeq(s.cellState,
                     LAMBDA e : \E c \in ViewCells(s.mapCenter, s.viewSize) :
                                  e[1] = CellKey(c[1], c[2]))
       IN  [s EXCEPT !.cellState = kept,
                     !.activeRectangles = Rectangles(kept, s.mapCenter, s.viewSize)]

RECURSIVE storeAll(_, _)
storeAll(m, cells) ==
  IF cells = {} THEN m
  ELSE LET c == CHOOSE x \in cells : TRUE
       IN  storeAll(MapSet(m, CellKey(c[1], c[2]), getCellValue(m, c[1], c[2])),
                    cells \ {c})
\* a render that stores every cell it draws
renderMaterialize(s) ==
  IF s.threw THEN s
  ELSE [s EXCEPT !.cellState = storeAll(@, ViewCells(s.mapCenter, s.viewSize)),
                 !.activeRectangles = Rectangles(s.cellState, s.mapCenter, s.viewSize)]

render(s) ==
  IF s.threw THEN s
  ELSE [s EXCEPT !.activeRectangles = Rectangles(s.cellState, s.mapCenter, s.viewSize)]

\* a status line that announces victory only above the threshold
updateStatusStrict(s) ==
  IF s.threw THEN s
  ELSE [s EXCEPT !.statusPanel =
       IF s.inventory = Null THEN [text |-> "Empty", victory |-> FALSE]
       ELSE [text |-> "Token", value |-> Held(s.inventory),
             victory |-> Held(s.inventory) > VICTORY_THRESHOLD]]

updateStatus(s) ==
  IF s.threw THEN s
  ELSE [s EXCEPT !.statusPanel =
       IF s.inventory = Null THEN [text |-> "Empty", victory |-> FALSE]
       ELSE [text |-> "Token", value |-> Held(s.inventory),
             victory |-> Held(s.inventory) >= VICTORY_THRESHOLD]]

\* setCellValue without its render()
setCellValueStale(s, i, j, value, quota) ==
  IF s.threw THEN s
  ELSE saveGame([s EXCEPT !.cellState = MapSet(@, CellKey(i, j), value)], quota)

\* setCellValue without its saveGame()
setCellValueUnsaved(s, i, j, value, quota) ==
  IF s.threw THEN s
  ELSE render([s EXCEPT !.cellState = MapSet(@, CellKey(i, j), value)])

setCellValue(s, i, j, value, quota) ==
  IF s.threw THEN s
  ELSE render(saveGame([s EXCEPT !.cellState = MapSet(@, CellKey(i, j), value)], quota))

\* an assignment that never empties the hand
setInventoryKeep(s, inv) ==
  IF s.threw \/ inv = Null THEN s ELSE [s EXCEPT !.inventory = inv]

\* inventory = inv, skipped when an earlier statement threw
setInventory(s, inv) == IF s.threw THEN s ELSE [s EXCEPT !.inventory = inv]

\* ---- the click handler of a drawn rectangle ----
\* a range check that rejects only cells too far on both axes
InRangeBoth(distI, distJ) == ~(distI > INTERACTION_RANGE /\ distJ > INTERACTION_RANGE)

InRange(distI, distJ) == ~(distI > INTERACTION_RANGE \/ distJ > INTERACTION_RANGE)

\* a branch choice that merges any held token into any token
BranchLoose(inv, value) ==
  IF value > 0
    THEN IF inv = Null THEN "collect" ELSE "craft"
    ELSE IF inv # Null THEN "deposit" ELSE "none"

\* a branch choice that collects from empty cells too
BranchCollectEmpty(inv, value) ==
  IF value >= 0 /\ inv = Null THEN "collect"
  ELSE IF value > 0
    THEN IF inv = {value} THEN "craft" ELSE "none"
    ELSE IF inv # Null THEN "deposit" ELSE "none"

\* the branch the handler takes on the captured value
Branch(inv, value) ==
  IF value > 0
    THEN IF inv = Null THEN "collect"
         ELSE IF inv = {value} THEN "craft"
         ELSE "none"
    ELSE IF inv # Null THEN "deposit" ELSE "none"

rectClick(s, rect, quota) ==
  LET playerCell == latLngToCell(s.playerPosition.lat, s.playerPosition.lng)
      distI == Abs(rect.i - playerCell.i)
      distJ == Abs(rect.j - playerCell.j)
      value == rect.value
      branch == Branch(s.inventory, value)
  IN  IF ~InRange(distI, distJ) THEN s
      ELSE IF branch = "collect"
        THEN updateStatus(setCellValue(setInventory(s, {value}),
                                       rect.i, rect.j, 0, quota))
      ELSE IF branch = "craft"
        THEN updateStatus(setCellValue(setInventory(s, Null),
                                       rect.i, rect.j, value * 2, quota))
      ELSE IF branch = "deposit"
        THEN updateStatus(setInventory(
               setCellValue(s, rect.i, rect.j, Held(s.inventory), quota), Null))
      ELSE s

\* ---- loading ----
RECURSIVE setEntriesSkipZero(_, _)
\* a loop that skips the entries whose value is falsy
setEntriesSkipZero(m, entries) ==
  IF entries = <<>> THEN m
  ELSE setEntriesSkipZero(IF Head(entries)[2] = 0 THEN m
                          ELSE MapSet(m, Head(entries)[1], Head(entries)[2]),
                          Tail(entries))

RECURSIVE setEntries(_, _)
\* for (const [key, value] of entries) cellState.set(key, value)
setEntries(m, entries) ==
  IF entries = <<>> THEN m
  ELSE setEntries(MapSet(m, Head(entries)[1], Head(entries)[2]), Tail(entries))

\* the JavaScript value of a JSON number or null
fromJSON(v) == IF v.t = "null" THEN Null ELSE {v.n}

\* loadGame(): [s |-> the state after it, ret |-> its return value]
loadGame(s) ==
  IF s.storage.kind = "absent" THEN [s |-> s, ret |-> FALSE]
  ELSE IF s.storage.kind # "json"
    THEN [s |-> [s EXCEPT !.threw = TRUE], ret |-> FALSE]
  ELSE LET state == s.storage.doc
           s1 == [s EXCEPT !.playerPosition = [lat |-> state.playerPosition.lat,
                                               lng |-> state.playerPosition.lng],
                           !.inventory = fromJSON(state.inventory),
                           !.cellState = <<>>]
       IN  IF "playerPosition" \notin DOMAIN state
             THEN [s |-> [s EXCEPT !.threw = TRUE], ret |-> FALSE]
           ELSE IF "cellState" \notin DOMAIN state
             THEN [s |-> [s1 EXCEPT !.threw = TRUE], ret |-> FALSE]
           ELSE [s |-> [s1 EXCEPT !.cellState = setEntries(<<>>, state.cellState)],
                 ret |-> TRUE]

\* map.setView(playerPosition): recentres the view and notifies moveend listeners
setView(s) ==
  IF s.threw THEN s
  ELSE LET s1 == [s EXCEPT !.mapCenter = s.playerPosition]
       IN  IF s1.moveendListener THEN render(s1) ELSE s1

\* a start-up that draws the grid before it loads the saved game
whenReadyEarlyRender(s) ==
  LET drawn == render(s).activeRectangles
      r  == loadGame(s)
      s1 == IF r.ret THEN updateStatus(setView(r.s)) ELSE r.s
  IN  [s1 EXCEPT !.activeRectangles = drawn, !.moveendListener = ~s1.threw,
                 !.pc = "ready"]

\* the map.whenReady callback, then the registration of the moveend listener
whenReady(s) ==
  LET r  == loadGame(s)
      s1 == IF r.ret THEN updateStatus(setView(r.s)) ELSE r.s
      s2 == render(s1)
  IN  [s2 EXCEPT !.moveendListener = ~s2.threw, !.pc = "ready"]

\* ---- movement ----
\* a move that empties the player's hand
movePlayerDrop(s, dLat, dLng) ==
  render(setView([s EXCEPT !.playerPosition =
                    [lat |-> @.lat + dLat * TILE_DEGREES,
                     lng |-> @.lng + dLng * TILE_DEGREES],
                  !.inventory = Null]))

movePlayer(s, dLat, dLng) ==
  render(setView([s EXCEPT !.playerPosition =
                    [lat |-> @.lat + dLat * TILE_DEGREES,
                     lng |-> @.lng + dLng * TILE_DEGREES]]))

setPlayerPosition(s, lat, lng) ==
  render(setView([s EXCEPT !.playerPosition = [lat |-> lat, lng |-> lng]]))

\* navigator.geolocation.watchPosition: a subscription under an id not in use
watchPosition(live) == CHOOSE id \in 1..(Cardinality(live) + 1) : id \notin live

\* geoMovement.start()
geoStart(s) ==
  IF ~hasGeolocation THEN s
  ELSE [s EXCEPT !.geoWatchId = {watchPosition(s.watches)},
                 !.watches = @ \cup {watchPosition(s.watches)}]

\* a stop that forgets the browser's subscription
geoStopLeak(s) == IF s.geoWatchId # Null THEN [s EXCEPT !.geoWatchId = Null] ELSE s

\* geoMovement.stop()
geoStop(s) ==
  IF s.geoWatchId # Null
    THEN [s EXCEPT !.watches = @ \ s.geoWatchId, !.geoWatchId = Null]
    ELSE s
buttonStart(s) == [s EXCEPT !.controlPanelDisplay = "flex"]
buttonStop(s) == [s EXCEPT !.controlPanelDisplay = "none"]

\* buttonMovement.isActive() and geoMovement.isActive()
buttonIsActive(s) == s.controlPanelDisplay # "none"
geoIsActive(s) == s.geoWatchId # Null

\* a toggle that leaves the location source running when it selects the buttons
geoToggleNoStop(s) ==
  IF s.currentMovement = "geoMovement"
    THEN buttonStart([s EXCEPT !.currentMovement = "buttonMovement"])
    ELSE geoStart([buttonStop(s) EXCEPT !.currentMovement = "geoMovement"])

\* the geoToggleBtn click handler
geoToggle(s) ==
  IF s.currentMovement = "geoMovement"
    THEN buttonStart([geoStop(s) EXCEPT !.currentMovement = "buttonMovement"])
    ELSE geoStart([buttonStop(s) EXCEPT !.currentMovement = "geoMovement"])

\* ---- environment samples ----
Home == latLngToCell(InitLat, InitLng)
InitPosition == [lat |-> InitLat, lng |-> InitLng]
\* window shapes: a tall strip and a wide strip, each reaching past the interaction range
ViewSizes == {[hLat |-> ViewHalfLong, hLng |-> ViewHalfShort],
              [hLat |-> ViewHalfShort, hLng |-> ViewHalfLong]}
\* positions the location service reports
GeoFixes == {[lat |-> InitLat + 1, lng |-> InitLng + 2]}
\* where the buttons may carry the player
InBox(pos) == /\ InitLat <= pos.lat /\ pos.lat <= InitLat + MaxTravel * TILE_DEGREES
              /\ InitLng <= pos.lng /\ pos.lng <= InitLng + MaxTravel * TILE_DEGREES

\* a game saved by an earlier session at the start position: Home collected and
\* crafted onto (Home+2), (Home+3) collected and crafted onto (Home-2), the 2 at
\* (Home+2) collected
SavedGame ==
  JSONstringify(InitPosition, {2},
    << <<CellKey(Home.i, Home.j), 0>>, <<CellKey(Home.i + 2, Home.j), 0>>,
       <<CellKey(Home.i + 3, Home.j), 0>>, <<CellKey(Home.i - 2, Home.j), 2>> >>)

RECURSIVE emptied(_)
\* store entries of collected cells: each of the cells with value 0
emptied(cells) ==
  IF cells = {} THEN <<>>
  ELSE LET c == CHOOSE x \in cells : TRUE
       IN  <<<<CellKey(c[1], c[2]), 0>>>> \o emptied(cells \ {c})

\* the cells around the start that generate a token: 16 of them
VictoryField ==
  {c \in (Home.i - 2 .. Home.i + 2) \X (Home.j - 3 .. Home.j + 2) :
     spawnValue(c[1], c[2]) = 1}

\* a game saved one merge before victory: the 16 tokens around the start were
\* collected and merged into two 8s, one held and one lying on the cell north of the
\* start
VictoryGame ==
  JSONstringify(InitPosition, {8},
    emptied(VictoryField) \o <<<<CellKey(Home.i + 1, Home.j), 8>>>>)

\* stored text that is not JSON, and JSON of the wrong shape
Garbage == [kind |-> "text"]
NoCells == [kind |-> "json",
            doc |-> [playerPosition |-> [lat |-> InitLat + 1, lng |-> InitLng + 2],
                     inventory |-> [t |-> "number", n |-> 8]]]
Malformed == {Garbage, NoCells}

\* ---- the state after construction, before map.whenReady's callback ----
Construct(st) ==
  [playerPosition |-> InitPosition, inventory |-> Null, cellState |-> <<>>,
   storage |-> st, mapCenter |-> InitPosition, viewSize |-> viewSize,
   activeRectangles |-> {}, statusPanel |-> [text |-> "Empty", victory |-> FALSE],
   controlPanelDisplay |-> "flex", geoWatchId |-> Null,
   currentMovement |-> "buttonMovement", watches |-> {},
   moveendListener |-> FALSE, pc |-> "boot", threw |-> FALSE]

\* blobs: what storage may hold at start-up; browsers: whether geolocation exists
InitGame(blobs, browsers) ==
  /\ viewSize \in ViewSizes
  /\ hasGeolocation \in browsers
  /\ geoErrorLogged = FALSE
  /\ \E st \in blobs :
       /\ playerPosition = Construct(st).playerPosition
       /\ inventory = Construct(st).inventory
       /\ cellState = Construct(st).cellState
       /\ storage = Construct(st).storage
       /\ mapCenter = Construct(st).mapCenter
       /\ activeRectangles = Construct(st).activeRectangles
       /\ statusPanel = Construct(st).statusPanel
       /\ controlPanelDisplay = Construct(st).controlPanelDisplay
       /\ geoWatchId = Construct(st).geoWatchId
       /\ currentMovement = Construct(st).currentMovement
       /\ watches = Construct(st).watches
       /\ moveendListener = Construct(st).moveendListener
       /\ pc = Construct(st).pc
       /\ threw = Construct(st).threw
  /\ interactions = 0
  /\ written = <<>>
  /\ loaded = {}

\* the popup revision is not the running program
NoPopup == [revision |-> "none"]
InitEnv(blobs, browsers) == InitGame(blobs, browsers) /\ popup = NoPopup

InitWith(blobs) == InitEnv(blobs, {TRUE})

\* ---- New Game ----
\* localStorage.removeItem(STORAGE_KEY)
removeItem(s) == [s EXCEPT !.storage = Absent]
\* location.reload(): the module is constructed again over what storage holds
reload(s) == Construct(s.storage)

\* a New Game that reloads without removing the blob
newGameKeepBlob(s, confirmed) == IF confirmed THEN reload(s) ELSE s

newGame(s, confirmed) == IF confirmed THEN reload(removeItem(s)) ELSE s

Init == InitWith({Absent, SavedGame})

\* ---- actions ----
WhenReady ==
  /\ pc = "boot"
  /\ \E s2 \in {whenReady(State)} : Apply(s2)
  /\ loaded' = IF loadGame(State).ret THEN MapKeys(loadGame(State).s.cellState) ELSE {}
  /\ UNCHANGED <<hasGeolocation, geoErrorLogged, interactions, written, popup>>

Click(rect, quota) ==
  \E s2 \in {rectClick(State, rect, quota)} :
  LET c  == <<rect.i, rect.j>>
      set == s2.cellState # cellState
  IN  /\ pc = "ready"
      /\ set => interactions < MaxInteractions
      /\ Apply(s2)
      /\ interactions' = IF set THEN interactions + 1 ELSE interactions
      /\ written' = IF set
                    THEN [x \in DOMAIN written \cup {c} |->
                            IF x = c THEN MapGet(s2.cellState, CellKey(rect.i, rect.j))
                            ELSE written[x]]
                    ELSE written
      /\ UNCHANGED <<hasGeolocation, geoErrorLogged, loaded, popup>>

ClickCell == \E rect \in activeRectangles : Click(rect, FALSE)

\* a click during which localStorage.setItem throws
ClickQuota == \E rect \in activeRectangles : Click(rect, TRUE)

MoveButton ==
  /\ pc = "ready"
  /\ controlPanelDisplay # "none"
  /\ \E d \in {<<1, 0>>, <<0 - 1, 0>>, <<0, 1>>, <<0, 0 - 1>>} :
       \E s2 \in {movePlayer(State, d[1], d[2])} :
           InBox(s2.playerPosition) /\ Apply(s2)
  /\ UNCHANGED <<hasGeolocation, geoErrorLogged, interactions, written, loaded, popup>>

\* a live subscription delivers a position to its success callback
GeoUpdate ==
  /\ pc = "ready"
  /\ watches # {}
  /\ \E fix \in GeoFixes : \E s2 \in {setPlayerPosition(State, fix.lat, fix.lng)} : Apply(s2)
  /\ UNCHANGED <<hasGeolocation, geoErrorLogged, interactions, written, loaded, popup>>

\* a live subscription reports an error (permission denied, timeout) to its error
\* callback, which writes to the console
GeoError ==
  /\ pc = "ready"
  /\ watches # {}
  /\ geoErrorLogged' = TRUE
  /\ UNCHANGED <<playerPosition, inventory, cellState, storage, mapCenter, viewSize,
                 activeRectangles, statusPanel, controlPanelDisplay, geoWatchId,
                 currentMovement, hasGeolocation, watches, moveendListener, pc, threw,
                 interactions, written, loaded, popup>>

GeoToggle ==
  /\ pc = "ready"
  /\ Apply(geoToggle(State))
  /\ UNCHANGED <<hasGeolocation, geoErrorLogged, interactions, written, loaded, popup>>

\* the window is resized: the view bounds change and Leaflet notifies moveend
Resize ==
  /\ pc = "ready"
  /\ \E size \in ViewSizes \ {viewSize} :
       \E s1 \in {[State EXCEPT !.viewSize = size]} :
         \E s2 \in {IF s1.moveendListener THEN render(s1) ELSE s1} : Apply(s2)
  /\ UNCHANGED <<hasGeolocation, geoErrorLogged, interactions, written, loaded, popup>>

\* the newGameBtn click handler; confirmed: the answer to confirm()
NewGame ==
  /\ pc = "ready"
  /\ \E confirmed \in BOOLEAN :
       /\ Apply(newGame(State, confirmed))
       /\ interactions' = IF confirmed THEN 0 ELSE interactions
       /\ written' = IF confirmed THEN <<>> ELSE written
       /\ loaded' = IF confirmed THEN {} ELSE loaded
       /\ geoErrorLogged' = IF confirmed THEN FALSE ELSE geoErrorLogged
  /\ UNCHANGED <<hasGeolocation, popup>>

Next == WhenReady \/ ClickCell \/ MoveButton \/ GeoUpdate \/ GeoToggle \/ Resize \/ NewGame

Spec == Init /\ [][Next]_vars

\* start-up finds a malformed blob
InitMalformed == InitWith(Malformed)
SpecMalformed == InitMalformed /\ [][Next]_vars

\* storage writes may fail
NextQuota == Next \/ ClickQuota
InitSaved == InitWith({SavedGame})
SpecQuota == InitSaved /\ [][NextQuota]_vars

\* a session that finds an earlier session's game
SpecSaved == InitSaved /\ [][Next]_vars

\* a session that finds a game saved one merge before victory
InitVictory == InitWith({VictoryGame})
SpecVictory == InitVictory /\ [][Next]_vars

\* browsers with and without geolocation, and a location service that reports errors
NextGeo == Next \/ GeoError
InitGeo == InitEnv({Absent}, BOOLEAN)
SpecGeo == InitGeo /\ [][NextGeo]_vars

\* ---- the popup revision (src/main.ts) ----
GRID_RADIUS == 2
PopupGrid == (0 - GRID_RADIUS .. GRID_RADIUS) \X (0 - GRID_RADIUS .. GRID_RADIUS)
playerRow == 0
playerCol == 0
\* const inRange = dRow <= 1 && dCol <= 1
popupInRange(c) == Abs(c[1] - playerRow) <= 1 /\ Abs(c[2] - playerCol) <= 1

\* the button the popup of cell c shows when it opens: the bound content function
\* reads the tokenValue drawGrid captured; content set by a handler has no button
popupButton(p, c) ==
  IF p.content[c] = "static" THEN "none"
  ELSE IF p.tokenValue[c] > 0 /\ popupInRange(c)
    THEN IF p.inventory = 0 /\ p.tokenValue[c] > 0 THEN "collect"
         ELSE IF p.inventory > 0 /\ p.tokenValue[c] = p.inventory THEN "craft"
         ELSE "none"
  ELSE "none"

\* the collectBtn click handler of cell c
collectBtnClick(p, c) ==
  IF p.inventory = 0 /\ p.cellData[c] > 0
    THEN [p EXCEPT !.inventory = p.cellData[c],
                   !.statusPanel = [text |-> "Inventory", value |-> p.cellData[c]],
                   !.cellData[c] = 0,
                   !.content[c] = "static"]
    ELSE p

\* the craftBtn click handler of cell c
craftBtnClick(p, c) ==
  LET newValue == p.inventory * 2
  IN  [p EXCEPT !.statusPanel = [text |-> "Crafted", value |-> newValue],
                !.inventory = newValue,
                !.cellData[c] = newValue,
                !.content[c] = "static",
                !.victoryAlert = @ \/ newValue >= 16]

\* drawGrid(): luck decides per cell whether it holds a token of value 1
RECURSIVE tokenCells(_)
\* the sets of at most n cells of the grid
tokenCells(n) ==
  IF n = 0 THEN {{}}
  ELSE LET fewer == tokenCells(n - 1)
       IN  fewer \cup {S \cup {c} : S \in fewer, c \in PopupGrid}

PopupLayouts ==
  {[c \in PopupGrid |-> IF c \in S THEN 1 ELSE 0] : S \in tokenCells(MaxTokens)}

drawGrid(f) ==
  [revision |-> "popup", inventory |-> 0, tokenValue |-> f, cellData |-> f,
   content |-> [c \in PopupGrid |-> "bound"],
   statusPanel |-> [text |-> "Inventory", value |-> 0], victoryAlert |-> FALSE]

InitPopup ==
  /\ InitGame({Absent}, {TRUE})
  /\ \E f \in PopupLayouts : popup = drawGrid(f)

\* the popup of cell c is opened and the button it shows is pressed
PopupCollect(c) ==
  /\ popupButton(popup, c) = "collect"
  /\ popup' = collectBtnClick(popup, c)
  /\ UNCHANGED <<playerPosition, inventory, cellState, storage, mapCenter, viewSize,
                 activeRectangles, statusPanel, controlPanelDisplay, geoWatchId,
                 currentMovement, hasGeolocation, watches, geoErrorLogged,
                 moveendListener, pc, threw, interactions, written, loaded>>

PopupCraft(c) ==
  /\ popupButton(popup, c) = "craft"
  /\ popup' = craftBtnClick(popup, c)
  /\ UNCHANGED <<playerPosition, inventory, cellState, storage, mapCenter, viewSize,
                 activeRectangles, statusPanel, controlPanelDisplay, geoWatchId,
                 currentMovement, hasGeolocation, watches, geoErrorLogged,
                 moveendListener, pc, threw, interactions, written, loaded>>

PopupCollectAny == \E c \in PopupGrid : PopupCollect(c)
PopupCraftAny == \E c \in PopupGrid : PopupCraft(c)
NextPopup == PopupCollectAny \/ PopupCraftAny
SpecPopup == InitPopup /\ [][NextPopup]_vars

\* ---- what the claims speak of ----
PlayerCell == latLngToCell(playerPosition.lat, playerPosition.lng)
Max(a, b) == IF a > b THEN a ELSE b
Chebyshev(rect) == Max(Abs(rect.i - PlayerCell.i), Abs(rect.j - PlayerCell.j))
Near(rect) == Chebyshev(rect) <= INTERACTION_RANGE
CurrentValue(rect) == getCellValue(cellState, rect.i, rect.j)
Drawn == Rectangles(cellState, mapCenter, viewSize)
RegionReach == ViewHalfLong \div TILE_DEGREES + MaxTravel + 1
Region == (Home.i - RegionReach .. Home.i + RegionReach)
            \X (Home.j - RegionReach .. Home.j + RegionReach)
Walked == playerPosition # InitPosition

\* the two no-op rows of the table, for a click on rect
NoOpRow(rect) ==
  LET v == CurrentValue(rect)
  IN  \/ inventory = Null /\ v = 0
      \/ inventory # Null /\ v > 0 /\ inventory # {v}

\* the rows Collect, Deposit and Craft of the transition table, for a step on rect
TableRow(rect) ==
  LET v == CurrentValue(rect)
      after == getCellValue(cellState', rect.i, rect.j)
  IN  /\ (inventory = Null /\ v > 0) => (inventory' = {v} /\ after = 0)
      /\ (inventory # Null /\ v = 0) => (after = Held(inventory) /\ inventory' = Null)
      /\ (inventory # Null /\ v > 0 /\ inventory = {v}) =>
           (inventory' = Null /\ after = 2 * v)

\* C1: every click on a cell in range, whatever came before, takes the cell's current
\* value v and the inventory to: Collect (empty, v > 0) inventory v and cell 0; Deposit
\* (holding w, v = 0) cell w and inventory empty; Craft (holding w = v) inventory empty
\* and cell 2w.
C1_TransitionTable ==
  [][\A rect \in activeRectangles :
       (Near(rect) /\ ~NoOpRow(rect) /\ Click(rect, FALSE)) => TableRow(rect)]_vars

\* a 2 was crafted into a 4 after the player walked: a craft with w = 2 has acted
C1_Witness ==
  /\ inventory = Null /\ Walked /\ interactions >= 1
  /\ \E c \in DOMAIN written : written[c] = 4 /\ getCellValue(cellState, c[1], c[2]) = 4

\* C2: a click on a cell whose Chebyshev distance from the player's cell exceeds the
\* interaction radius changes neither the Cell Store nor the inventory.
C2_RangeGate ==
  [][\A rect \in activeRectangles :
       (Chebyshev(rect) > INTERACTION_RANGE /\ Click(rect, FALSE))
         => UNCHANGED <<cellState, inventory>>]_vars

\* after moves, a drawn cell out of range is one the handler would act on were it in
\* range (a token to collect or merge, or an empty cell to deposit into)
C2_Witness ==
  /\ pc = "ready" /\ Walked /\ interactions < MaxInteractions
  /\ \E rect \in activeRectangles :
       /\ Chebyshev(rect) > INTERACTION_RANGE
       /\ Branch(inventory, rect.value) # "none"

\* C3: an in-range click with empty inventory on an empty cell, and an in-range click
\* holding w on a cell of value v > 0, v # w, change neither the inventory nor the
\* Cell Store (no entry is created) and write nothing to storage.
C3_NoOpRows ==
  [][\A rect \in activeRectangles :
       (Near(rect) /\ NoOpRow(rect) /\ Click(rect, FALSE))
         => UNCHANGED <<inventory, cellState, storage>>]_vars

\* a token is held next to an in-range cell of another value, with a click to spare and
\* the stored blob out of date, so that a write would show
C3_Witness ==
  /\ pc = "ready" /\ inventory # Null /\ interactions < MaxInteractions
  /\ storage # JSONstringify(playerPosition, inventory, cellState)
  /\ \E rect \in activeRectangles :
       Near(rect) /\ CurrentValue(rect) > 0 /\ inventory # {CurrentValue(rect)}

\* C4: a cell set to x by collect, craft or deposit keeps a store entry and reads x,
\* on and off screen and through every move, view change and re-render, until it is
\* itself set again; when drawn it is drawn with x.
C4_ModifiedCellsPersist ==
  /\ \A c \in DOMAIN written :
       /\ MapHas(cellState, CellKey(c[1], c[2]))
       /\ getCellValue(cellState, c[1], c[2]) = written[c]
  /\ \A rect \in activeRectangles :
       <<rect.i, rect.j>> \in DOMAIN written => rect.value = written[<<rect.i, rect.j>>]

\* a collected cell that generates a token is off screen and still an explicit 0
C4_Witness ==
  \E c \in DOMAIN written :
    /\ c \notin ViewCells(mapCenter, viewSize)
    /\ written[c] = 0 /\ spawnValue(c[1], c[2]) = 1
    /\ MapGet(cellState, CellKey(c[1], c[2])) = 0

\* C5: every coordinate that no collect, craft or deposit targeted and that was not
\* loaded reads as the generator's base value, which is 0 or 1.
C5_Overlay ==
  \A c \in Region :
    (c \notin DOMAIN written /\ CellKey(c[1], c[2]) \notin loaded)
      => /\ getCellValue(cellState, c[1], c[2]) = spawnValue(c[1], c[2])
         /\ spawnValue(c[1], c[2]) \in {0, 1}

\* the store holds loaded and clicked cells, and an untouched cell in the row of a
\* clicked one still generates its token
C5_Witness ==
  /\ loaded # {} /\ Walked
  /\ \E c \in DOMAIN written : \E d \in Region :
       /\ d[1] = c[1] /\ d \notin DOMAIN written /\ CellKey(d[1], d[2]) \notin loaded
       /\ written[c] # spawnValue(d[1], d[2])
       /\ getCellValue(cellState, d[1], d[2]) = 1

\* C6: in a session that started with an empty store, the store holds at most as many
\* entries as there were collect, craft and deposit clicks.
C6_SpaceBound == (loaded = {}) => Len(cellState) <= interactions

\* two clicks made two entries, after walking and with far more cells drawn
C6_Witness ==
  /\ loaded = {} /\ Walked /\ interactions = 2 /\ Len(cellState) = 2
  /\ Cardinality(activeRectangles) > 2

\* saveGame, then the in-memory state cleared, then loadGame
RoundTrip ==
  LET saved == saveGame(State, FALSE)
  IN  loadGame([saved EXCEPT !.playerPosition = InitPosition, !.inventory = Null,
                             !.cellState = <<>>])

\* C7: saving, clearing and loading gives back the position, the inventory and the
\* Cell Store that were saved.
C7_RoundTrip ==
  pc = "ready" =>
    /\ RoundTrip.ret
    /\ RoundTrip.s.playerPosition = playerPosition
    /\ RoundTrip.s.inventory = inventory
    /\ RoundTrip.s.cellState = cellState

\* a held token, a moved player, and a store with an explicit 0 and a token
C7_Witness ==
  /\ pc = "ready" /\ inventory # Null /\ Walked
  /\ \E n \in 1..Len(cellState) : cellState[n][2] = 0
  /\ \E n \in 1..Len(cellState) : cellState[n][2] > 0
  /\ RoundTrip.s.cellState = cellState

\* C8: a step of a running session that changes the Cell Store leaves storage holding
\* the changed store and the player's position, and the view drawn from the changed
\* store: the write and the render both came after the change.
C8_MutationSavedAndRendered ==
  [][(pc = "ready" /\ pc' = "ready" /\ cellState' # cellState) =>
       /\ storage' # storage
       /\ storage'.kind = "json"
       /\ storage'.doc.cellState = cellState'
       /\ storage'.doc.playerPosition = playerPosition'
       /\ activeRectangles' = Rectangles(cellState', mapCenter', viewSize')]_vars

\* a click of this session changed the store, which storage and the view now show
C8_Witness ==
  /\ interactions >= 1 /\ Walked
  /\ storage.kind = "json" /\ storage.doc.cellState = cellState
  /\ storage.doc.playerPosition = playerPosition
  /\ activeRectangles = Drawn
  /\ \E c \in DOMAIN written : ~(c \in {<<Home.i, Home.j>>})

\* C9: start-up on a malformed blob raises no error, keeps the initial position,
\* inventory and store, and still renders.
C9_MalformedAsAbsent ==
  [][(pc = "boot" /\ pc' = "ready" /\ storage \in Malformed) =>
       /\ ~threw'
       /\ playerPosition' = InitPosition
       /\ inventory' = Null
       /\ cellState' = <<>>
       /\ activeRectangles' = Rectangles(cellState', mapCenter', viewSize')]_vars

\* C10: a click whose storage write fails still completes its row of the table, does
\* not raise, and redraws the view.
C10_FailedWriteCompletes ==
  [][\A rect \in activeRectangles :
       (Click(rect, TRUE) /\ Near(rect)) =>
         /\ TableRow(rect)
         /\ ~threw'
         /\ activeRectangles' = Rectangles(cellState', mapCenter', viewSize')]_vars

\* ---- the movement facade ----
ButtonStep ==
  \E d \in {<<1, 0>>, <<0 - 1, 0>>, <<0, 1>>, <<0, 0 - 1>>} :
    playerPosition' = [lat |-> playerPosition.lat + d[1] * TILE_DEGREES,
                       lng |-> playerPosition.lng + d[2] * TILE_DEGREES]

\* C11: in every state, with or without geolocation in the browser, exactly one of
\* buttonMovement.isActive() and geoMovement.isActive() is true.
C11_ExactlyOneActive == buttonIsActive(State) # geoIsActive(State)

\* C12: pressing the toggle twice gives back the selected source and its activity; at
\* most one location subscription is live, and none while the button source is
\* selected.
C12_ToggleNoLeak ==
  pc = "ready" =>
    /\ geoToggle(geoToggle(State)).currentMovement = currentMovement
    /\ buttonIsActive(geoToggle(geoToggle(State))) = buttonIsActive(State)
    /\ geoIsActive(geoToggle(geoToggle(State))) = geoIsActive(State)
    /\ Cardinality(geoToggle(geoToggle(State)).watches) = Cardinality(watches)
    /\ Cardinality(watches) <= 1
    /\ currentMovement = "buttonMovement" => watches = {}

\* the buttons are selected again after a subscription was live long enough to report
\* an error: the toggle was pressed twice and nothing is subscribed
C12_Witness ==
  /\ pc = "ready" /\ hasGeolocation /\ geoErrorLogged
  /\ currentMovement = "buttonMovement" /\ watches = {} /\ geoWatchId = Null

\* C13: after a press of the toggle in a browser without geolocation, and after a
\* location error, the button source is the selected one and its buttons are shown.
C13_FallbackToButtons ==
  [][(/\ pc = "ready" /\ pc' = "ready"
      /\ \/ ~hasGeolocation /\ currentMovement' # currentMovement
         \/ ~geoErrorLogged /\ geoErrorLogged')
       => (currentMovement' = "buttonMovement" /\ controlPanelDisplay' # "none")]_vars

\* C14: while the button source stays selected, the player position changes only by
\* a button's one-tile step: no location update moves the player.
C14_StopIsImmediate ==
  [][(/\ pc = "ready" /\ pc' = "ready"
      /\ currentMovement = "buttonMovement" /\ currentMovement' = "buttonMovement"
      /\ playerPosition' # playerPosition)
       => ButtonStep]_vars

\* a location update moved the player, then the toggle went back to the buttons
C14_Witness ==
  /\ pc = "ready" /\ playerPosition \in GeoFixes
  /\ currentMovement = "buttonMovement" /\ controlPanelDisplay = "flex"

\* C15: a confirmed New Game removes the blob and leaves a constructed session with
\* an empty store, no token and the initial position; the start-up that follows loads
\* nothing and keeps those values; a declined New Game changes nothing.
C15_Reset ==
  [][/\ (pc = "ready" /\ pc' = "boot") =>
          /\ storage' = Absent
          /\ cellState' = <<>> /\ inventory' = Null /\ playerPosition' = InitPosition
     /\ (pc = "boot" /\ pc' = "ready" /\ storage = Absent) =>
          /\ storage' = Absent /\ loaded' = {} /\ ~threw'
          /\ cellState' = <<>> /\ inventory' = Null /\ playerPosition' = InitPosition
          /\ activeRectangles' = Rectangles(<<>>, InitPosition, viewSize')
     /\ pc = "ready" => newGame(State, FALSE) = State]_vars

\* the session that found a saved game was reset and has started again from nothing
C15_Witness ==
  /\ pc = "ready" /\ storage = Absent /\ loaded = {}
  /\ cellState = <<>> /\ inventory = Null /\ playerPosition = InitPosition
  /\ activeRectangles = Drawn

\* ---- victory ----
Victorious == inventory # Null /\ Held(inventory) >= VICTORY_THRESHOLD

\* C16: the status panel shows the victory line exactly when the held value is at
\* least VICTORY_THRESHOLD, and while it is, a click in range still deposits onto an
\* empty cell and merges with an equal token as the table says.
C16_VictoryDerived ==
  /\ statusPanel.victory <=> Victorious
  /\ (pc = "ready" /\ Victorious) =>
       \A rect \in activeRectangles :
         Near(rect) =>
           LET s2 == rectClick(State, rect, FALSE)
               after == getCellValue(s2.cellState, rect.i, rect.j)
           IN  /\ rect.value = 0 =>
                    (s2.inventory = Null /\ after = Held(inventory))
               /\ inventory = {rect.value} =>
                    (s2.inventory = Null /\ after = 2 * rect.value)

\* the loaded 8 was merged into a 16 and the 16 collected: the victory line is shown
\* after that click, next to an empty cell in range that takes a deposit
C16_Witness ==
  /\ pc = "ready" /\ interactions = 2 /\ inventory = {16}
  /\ statusPanel.victory /\ statusPanel.value = 16
  /\ getCellValue(cellState, Home.i + 1, Home.j) = 0
  /\ \E rect \in activeRectangles :
       /\ Near(rect) /\ rect.value = 0
       /\ rectClick(State, rect, FALSE).inventory = Null

\* C17: in the popup revision, pressing Craft on an in-range cell whose token equals
\* the held value w leaves the inventory empty and the cell holding 2w.
C17_PopupCraft ==
  [][\A c \in PopupGrid :
       (popupButton(popup, c) = "craft" /\ popup' = craftBtnClick(popup, c)) =>
         (popup'.inventory = 0 /\ popup'.cellData[c] = 2 * popup.inventory)]_vars

\* ---- durability ----
\* C18: a step of a running session that changes the Cell Store leaves a blob that
\* decodes to the inventory and the Cell Store held in memory after the step.
C18_BlobMatchesMemory ==
  [][(pc = "ready" /\ pc' = "ready" /\ cellState' # cellState) =>
       /\ storage'.kind = "json"
       /\ fromJSON(storage'.doc.inventory) = inventory'
       /\ setEntries(<<>>, storage'.doc.cellState) = cellState']_vars

\* C19: a step of a running session that changes the player position leaves a blob
\* that holds the new position.
C19_PositionDurable ==
  [][(pc = "ready" /\ pc' = "ready" /\ playerPosition' # playerPosition) =>
       /\ storage'.kind = "json"
       /\ storage'.doc.playerPosition = playerPosition']_vars

\* ---- frame ----
\* C20: a step of a running session that moves the player or changes the view leaves
\* the Cell Store and the inventory as they were, and so does render(); a step that
\* changes the store is a collect, craft or deposit on a drawn cell in range, and
\* changes that cell's entry only.
C20_ViewingIsReadOnly ==
  [][/\ (/\ pc = "ready" /\ pc' = "ready"
         /\ \/ playerPosition' # playerPosition
            \/ mapCenter' # mapCenter
            \/ viewSize' # viewSize)
          => UNCHANGED <<cellState, inventory>>
     /\ pc = "ready" =>
          (render(State).cellState = cellState /\ render(State).inventory = inventory)
     /\ (pc = "ready" /\ pc' = "ready" /\ cellState' # cellState) =>
          \E rect \in activeRectangles :
            /\ Near(rect) /\ Branch(inventory, rect.value) # "none"
            /\ \A c \in Region \ {<<rect.i, rect.j>>} :
                 /\ MapHas(cellState', CellKey(c[1], c[2]))
                      = MapHas(cellState, CellKey(c[1], c[2]))
                 /\ getCellValue(cellState', c[1], c[2])
                      = getCellValue(cellState, c[1], c[2])]_vars

\* a location update moved a player who holds a token over a store with entries,
\* and the view was redrawn around the new position
C20_Witness ==
  /\ pc = "ready" /\ playerPosition \in GeoFixes /\ mapCenter = playerPosition
  /\ inventory # Null /\ cellState # <<>> /\ interactions >= 1
  /\ activeRectangles = Drawn

\* ---- the drawn grid ----
\* map.getBounds()
North == mapCenter.lat + viewSize.hLat
South == mapCenter.lat - viewSize.hLat
East == mapCenter.lng + viewSize.hLng
West == mapCenter.lng - viewSize.hLng
DrawnCells == {<<rect.i, rect.j>> : rect \in activeRectangles}

\* C21: once the session runs, the drawn cells are exactly the coordinates (i, j) with
\* floor(south/T) <= i <= floor(north/T) and floor(west/T) <= j <= floor(east/T) of the
\* current view bounds, one rectangle each, and nothing from an earlier render.
C21_DrawnGrid ==
  pc = "ready" =>
    /\ DrawnCells =
         {c \in Region :
            /\ South \div TILE_DEGREES <= c[1] /\ c[1] <= North \div TILE_DEGREES
            /\ West \div TILE_DEGREES <= c[2] /\ c[2] <= East \div TILE_DEGREES}
    /\ Cardinality(activeRectangles) = Cardinality(DrawnCells)

\* the view is the wide one around a player who walked, and a cell clicked under an
\* earlier view is no longer drawn
C21_Witness ==
  /\ pc = "ready" /\ Walked /\ mapCenter = playerPosition
  /\ viewSize.hLng = ViewHalfLong /\ Cardinality(activeRectangles) > 1
  /\ \E c \in DOMAIN written : c \notin DrawnCells

\* C22: once the session runs, the value captured by the click handler of every drawn
\* cell is the cell's current value, after loads, clicks, moves and view changes.
C22_NoStaleHandlers ==
  pc = "ready" =>
    \A rect \in activeRectangles :
      rect.value = getCellValue(cellState, rect.i, rect.j)

\* after a load, a click and a move, a drawn cell's handler holds a stored value that
\* differs from what the cell generates
C22_Witness ==
  /\ pc = "ready" /\ loaded # {} /\ interactions >= 1 /\ Walked
  /\ \E rect \in activeRectangles :
       /\ MapHas(cellState, CellKey(rect.i, rect.j))
       /\ rect.value # spawnValue(rect.i, rect.j)
       /\ rect.value = MapGet(cellState, CellKey(rect.i, rect.j))

\* ---- tokens ----
RECURSIVE RowSum(_, _, _)
\* the sum of getCellValue over the cells (i, from) .. (i, Home.j + RegionReach)
RowSum(m, i, from) ==
  IF from > Home.j + RegionReach THEN 0
  ELSE getCellValue(m, i, from) + RowSum(m, i, from + 1)

RECURSIVE RegionSum(_, _)
\* the sum of getCellValue over the rows from .. Home.i + RegionReach of the region
RegionSum(m, from) ==
  IF from > Home.i + RegionReach THEN 0
  ELSE RowSum(m, from, Home.j - RegionReach) + RegionSum(m, from + 1)

\* the held value plus the value lying in the region
TotalValue(inv, m) ==
  (IF inv = Null THEN 0 ELSE Held(inv)) + RegionSum(m, Home.i - RegionReach)

\* C23: a step of a running session that changes the inventory or the Cell Store
\* leaves the held value plus the sum of the region's cell values as it was.
C23_TokenConservation ==
  [][(/\ pc = "ready" /\ pc' = "ready"
      /\ inventory' # inventory \/ cellState' # cellState)
       => TotalValue(inventory', cellState') = TotalValue(inventory, cellState)]_vars

\* the loaded 2 was merged into a 4 and the 4 collected, by a player who walked
C23_Witness ==
  /\ pc = "ready" /\ Walked /\ interactions = 2 /\ inventory = {4}
  /\ \E c \in DOMAIN written : written[c] = 0 /\ getCellValue(cellState, c[1], c[2]) = 0

\* ---- values ----
PowersOfTwo == {1, 2, 4, 8, 16, 32, 64}

\* C24: the inventory is empty or holds a power of two (never 0), every Cell Store
\* entry is 0 or a power of two, and a deposit in range writes a value above 0.
C24_ValueDomain ==
  /\ inventory # Null => Held(inventory) \in PowersOfTwo
  /\ \A n \in 1..Len(cellState) : cellState[n][2] \in {0} \cup PowersOfTwo
  /\ (pc = "ready" /\ inventory # Null) =>
       \A rect \in activeRectangles :
         (Near(rect) /\ Branch(inventory, rect.value) = "deposit") =>
           getCellValue(rectClick(State, rect, FALSE).cellState, rect.i, rect.j) > 0

\* in a session that began empty, a collected 1 was put down on a cell that generates
\* nothing: the store holds a 0 and a 1, and the hand is empty again
C24_Witness ==
  /\ pc = "ready" /\ loaded = {} /\ inventory = Null /\ interactions = 2
  /\ \E c \in DOMAIN written : written[c] = 1 /\ spawnValue(c[1], c[2]) = 0
  /\ \E c \in DOMAIN written : written[c] = 0 /\ spawnValue(c[1], c[2]) = 1

====
